---- MODULE Spec2Model ----
(***************************************************************************)
(* Model of src/telegram_bot.py (class VideoKickBot): the per-user video   *)
(* verification tracker, its timers and the admin settings.                *)
(*                                                                         *)
(* Execution model taken from the source:                                  *)
(*  - the handlers are coroutines of one asyncio event loop; the           *)
(*    Application is built with its defaults (line 47), so one update is   *)
(*    handled to completion before the next one is started, and a handler  *)
(*    can be overtaken only by timer threads;                              *)
(*  - every threading.Timer (lines 216, 763) is a thread of its own that   *)
(*    runs _kick_user_timeout when its interval has passed, unless it was  *)
(*    cancelled before it woke up;                                         *)
(*  - a "with self.pending_users_lock" block that holds no await is one    *)
(*    step (nothing else can observe its middle); the block of             *)
(*    handle_video_message awaits the gateway with the lock held, so the   *)
(*    lock is a variable and the await is a state of the event loop.       *)
(***************************************************************************)
EXTENDS Integers, Sequences, FiniteSets, TLC

\* ------------------------------------------------------------------ bounds
NumKeys == 2
MaxTimers == 3
MaxJoins == 3
CommandJoins == 2
MaxLedger == 11
MaxSpam == 2

Keys == 1..NumKeys
TimerIds == 1..MaxTimers
\* The instants (seconds) the clock visits.
Times == {0, 10, 40}

\* ------------------------------------------------------- program constants
DefaultTimeout == 30
MinTimeout == 10
MaxTimeout == 600
FastSeconds == 10
FastPoints == 100
MediumSeconds == 30
MediumPoints == 50
RegularPoints == 25
DefaultStartHour == 8
DefaultEndHour == 22
LastHour == 23
LeaderboardSize == 10

VARIABLES
    now,                    \* datetime.now(), in seconds
    pending_users,          \* key -> entry (NoEntry when the key is absent)
    timers,                 \* every threading.Timer created so far
    verified_users,
    user_points,            \* the dict, as the sequence of its items in insertion order
    stats,
    timeout_seconds,
    bot_paused,
    interaction_mode,
    reward_system_enabled,
    pending_users_lock,     \* TRUE while the lock is held across a step
    loop,                   \* the handler the event loop is running
    anti_spam_enabled,
    custom_welcome,         \* the template, as the list of its words
    scheduled_mode,
    active_hours,
    sorted_users            \* the list leaderboard_command last showed

vars == <<now, pending_users, timers, verified_users, user_points, stats,
          timeout_seconds, bot_paused, interaction_mode, reward_system_enabled,
          pending_users_lock, loop, anti_spam_enabled, custom_welcome,
          scheduled_mode, active_hours, sorted_users>>

\* The settings of the protection and interactive features (lines 60-69).
features == <<anti_spam_enabled, custom_welcome, scheduled_mode, active_hours>>

tracker == <<pending_users, timers, verified_users, user_points>>

\* ------------------------------------------------------------------ values
NoEntry == [timer |-> 0, join_time |-> 0]
HasEntry(k) == pending_users[k].timer # 0

\* A timer object and the thread behind it. st is the thread's position:
\*   unused     not created yet
\*   waiting    started, sleeping until its interval has passed
\*   fired      woke up and entered _kick_user_timeout (line 249)
\*   removed    left the locked block having deleted an entry (line 260)
\*   kicking    passed the verified check, ban_chat_member issued (line 271)
\*   dead       cancelled before it woke up, or returned
\* at and dur (when it was started, and its interval) are kept while the
\* thread waits: nothing reads them afterwards.
\* sess records what became of the session (the pending entry) the timer was
\* armed for, for as long as the thread is alive: "open", "verified",
\* "expired" or "replaced" (the entry was overwritten).
NoTimer == [key |-> 0, dur |-> 0, at |-> 0, st |-> "unused", sess |-> "none"]
DeadTimer == [key |-> 0, dur |-> 0, at |-> 0, st |-> "dead", sess |-> "none"]

Idle == [pc |-> "idle", key |-> 0]

UsedTimers == {t \in TimerIds : timers[t].st # "unused"}
NextTimer == Cardinality(UsedTimers) + 1

\* threading.Timer.cancel(): stops the timer only while it is still waiting.
Cancel(tr) == IF tr.st = "waiting" THEN DeadTimer ELSE tr

\* user_points as a dict
LedgerKeys == {user_points[i].key : i \in 1..Len(user_points)}
LedgerIndex(k) == CHOOSE i \in 1..Len(user_points) : user_points[i].key = k
Total(k) == IF k \in LedgerKeys THEN user_points[LedgerIndex(k)].points ELSE 0

\* Line 65: the welcome template the bot starts with, word by word.
DefaultWelcome ==
    <<"Welcome", "{name}!", "Post", "a", "video", "within", "{timer}", "seconds",
      "to", "stay", "in", "the", "group!">>

Init ==
    /\ now = 0
    /\ pending_users = [k \in Keys |-> NoEntry]
    /\ timers = [t \in TimerIds |-> NoTimer]
    /\ verified_users = {}
    /\ user_points = <<>>
    /\ stats = [total_joins |-> 0, users_verified |-> 0, users_kicked |-> 0,
                spam_blocked |-> 0, links_blocked |-> 0, suspicious_kicked |-> 0]
    /\ timeout_seconds = DefaultTimeout
    /\ bot_paused = FALSE
    /\ interaction_mode = FALSE
    /\ reward_system_enabled = TRUE
    /\ pending_users_lock = FALSE
    /\ loop = Idle
    /\ anti_spam_enabled = TRUE
    /\ custom_welcome = DefaultWelcome
    /\ scheduled_mode = FALSE
    /\ active_hours = [start |-> DefaultStartHour, end |-> DefaultEndHour]
    /\ sorted_users = <<>>

\* ------------------------------------------------------------- the clock
Tick ==
    /\ \E t \in Times : t > now /\ now' = t
    /\ UNCHANGED <<features, sorted_users, pending_users, timers, verified_users,
                   user_points, stats, timeout_seconds, bot_paused,
                   interaction_mode, reward_system_enabled, pending_users_lock,
                   loop>>

\* ------------------------------------------------------------------- joins
\* Faulty variant: the paused test left out.
NewMemberBranchIgnoresPause ==
    IF interaction_mode THEN "interaction" ELSE "timer"

\* The branch _handle_new_member takes (lines 174, 191, 209).
NewMemberBranch ==
    IF bot_paused THEN "paused"
    ELSE IF interaction_mode THEN "interaction"
    ELSE "timer"

\* Faulty variant: armed with the built-in default instead of the current timeout.
NewTimerDefaultInterval(k) ==
    [key |-> k, dur |-> DefaultTimeout, at |-> now, st |-> "waiting",
     sess |-> "open"]

\* Faulty variant: the timer is stored in the entry but never started.
NewTimerNotStarted(k) ==
    [key |-> k, dur |-> timeout_seconds, at |-> now, st |-> "dead",
     sess |-> "open"]

\* Lines 216-228: the timer started for key k.
NewTimer(k) ==
    [key |-> k, dur |-> timeout_seconds, at |-> now, st |-> "waiting",
     sess |-> "open"]

\* Faulty variant: every waiting timer is cancelled, whatever its key.
CancelExistingAnyKey(k, t) ==
    Cancel([timers[t] EXCEPT !.sess = "replaced"])

\* Lines 211-213: the timer of an entry already there is cancelled.
CancelExisting(k, t) ==
    IF HasEntry(k) /\ t = pending_users[k].timer
    THEN Cancel([timers[t] EXCEPT !.sess = "replaced"])
    ELSE timers[t]

\* _handle_new_member, lines 165-247. The welcome message is sent after the
\* locked block and changes nothing here, whether it is delivered or not.
HandleNewMember(k) ==
    /\ loop = Idle
    /\ ~pending_users_lock
    /\ stats.total_joins < MaxJoins
    /\ stats' = [stats EXCEPT !.total_joins = @ + 1]
    /\ IF NewMemberBranch = "timer"
       THEN /\ NextTimer <= MaxTimers
            /\ timers' = [t \in TimerIds |->
                             IF t = NextTimer THEN NewTimer(k)
                             ELSE CancelExisting(k, t)]
            /\ pending_users' = [pending_users EXCEPT
                                   ![k] = [timer |-> NextTimer, join_time |-> now]]
       ELSE UNCHANGED <<pending_users, timers>>
    /\ UNCHANGED <<features, sorted_users, now, verified_users, user_points, timeout_seconds, bot_paused,
                   interaction_mode, reward_system_enabled, pending_users_lock,
                   loop>>

Statuses == {"left", "kicked", "member", "administrator", "creator"}

\* Lines 141-143.
IsJoin(old_status, new_status) ==
    /\ old_status \in {"left", "kicked"}
    /\ new_status \in {"member", "administrator", "creator"}

\* handle_chat_member_update, lines 129-148, for every pair of an old and a
\* new status (the pairs are told apart only by the test at lines 142-143).
HandleChatMemberUpdate(k) ==
    \E joined \in {IsJoin(old_status, new_status) :
                        old_status \in Statuses, new_status \in Statuses} :
        IF joined
        THEN HandleNewMember(k)
        ELSE loop = Idle /\ UNCHANGED vars

\* handle_new_members, lines 150-163, for a service message naming one user
\* (the users of a longer list are handled one after the other).
HandleNewMembers(k) ==
    \E is_bot \in BOOLEAN :
        IF ~is_bot
        THEN HandleNewMember(k)
        ELSE loop = Idle /\ UNCHANGED vars

\* The updates by which the platform reports one join of a user who is not
\* a bot: the change of the member's status (handled at line 86) and the
\* service message that names the new member (handled at line 101).
JoinReports ==
    {[type |-> "chat_member", old_status |-> "left", new_status |-> "member",
      is_bot |-> FALSE],
     [type |-> "new_chat_members", old_status |-> "left", new_status |-> "member",
      is_bot |-> FALSE]}

\* Lines 142-146 and 157-161: whether the handler an update goes to calls
\* _handle_new_member for the user.
CallsHandleNewMember(update) ==
    IF update.type = "chat_member"
    THEN IsJoin(update.old_status, update.new_status)
    ELSE ~update.is_bot

\* Line 171, once per call: total_joins after the updates have been handled.
TotalJoinsAfter(updates) ==
    stats.total_joins
        + Cardinality({update \in updates : CallsHandleNewMember(update)})

\* ------------------------------------------------------------------ videos
\* Faulty variant: the first tier ends before 10 seconds.
AwardForFastExclusive(elapsed) ==
    IF elapsed < FastSeconds THEN FastPoints
    ELSE IF elapsed <= MediumSeconds THEN MediumPoints
    ELSE RegularPoints

\* Faulty variant: a fast video earns a point more for every second left.
AwardForSecondsLeft(elapsed) ==
    IF elapsed <= FastSeconds THEN FastPoints + (FastSeconds - elapsed)
    ELSE IF elapsed <= MediumSeconds THEN MediumPoints
    ELSE RegularPoints

\* Lines 349-355.
AwardFor(elapsed) ==
    IF elapsed <= FastSeconds THEN FastPoints
    ELSE IF elapsed <= MediumSeconds THEN MediumPoints
    ELSE RegularPoints

\* Faulty variant: the key is entered in the ledger before the switch is
\* tested.
LedgerAfterKeyFirst(k, elapsed) ==
    LET award == IF reward_system_enabled THEN AwardFor(elapsed) ELSE 0 IN
    IF k \in LedgerKeys
    THEN [user_points EXCEPT ![LedgerIndex(k)].points = @ + award]
    ELSE Append(user_points, [key |-> k, points |-> award])

\* Faulty variant: the award replaces the total.
LedgerAfterOverwrite(k, elapsed) ==
    IF ~reward_system_enabled THEN user_points
    ELSE IF k \in LedgerKeys
         THEN [user_points EXCEPT ![LedgerIndex(k)].points = AwardFor(elapsed)]
         ELSE Append(user_points, [key |-> k, points |-> AwardFor(elapsed)])

\* Lines 347-359: the ledger after a verification that took elapsed seconds.
LedgerAfter(k, elapsed) ==
    IF ~reward_system_enabled THEN user_points
    ELSE IF k \in LedgerKeys
         THEN [user_points EXCEPT ![LedgerIndex(k)].points = @ + AwardFor(elapsed)]
         ELSE Append(user_points, [key |-> k, points |-> 0 + AwardFor(elapsed)])

\* Lines 330-331: the entry's timer is cancelled and its session is over.
VerifyTimer(t) == Cancel([timers[t] EXCEPT !.sess = "verified"])

\* Faulty variant: the set is started afresh with the key.
VerifiedAfterVideoOnlyKey(k) == {k}

\* Line 341.
VerifiedAfterVideo(k) == verified_users \cup {k}

\* handle_video_message up to its await, lines 315-373. The lock is taken at
\* line 326 and is still held when the success message is awaited (line 374).
HandleVideoMessage(k) ==
    /\ loop = Idle
    /\ ~pending_users_lock
    /\ IF HasEntry(k)
       THEN /\ timers' = [timers EXCEPT
                            ![pending_users[k].timer] = VerifyTimer(pending_users[k].timer)]
            /\ pending_users' = [pending_users EXCEPT ![k] = NoEntry]
            /\ verified_users' = VerifiedAfterVideo(k)
            /\ stats' = [stats EXCEPT !.users_verified = @ + 1]
            /\ user_points' = LedgerAfter(k, now - pending_users[k].join_time)
            /\ pending_users_lock' = TRUE
            /\ loop' = [pc |-> "video_send", key |-> k]
            /\ UNCHANGED <<features, sorted_users, now, timeout_seconds, bot_paused, interaction_mode,
                           reward_system_enabled>>
       ELSE UNCHANGED vars

\* Faulty variant: the handler ends without the lock being released.
VideoSendReturnsKeepsLock ==
    /\ loop.pc = "video_send"
    /\ loop' = Idle
    /\ UNCHANGED <<features, sorted_users, now, pending_users, timers, verified_users, user_points, stats,
                   timeout_seconds, bot_paused, interaction_mode,
                   reward_system_enabled, pending_users_lock>>

\* Lines 374-383: send_message returns or raises; leaving the with block
\* releases the lock either way.
VideoSendReturns ==
    /\ loop.pc = "video_send"
    /\ pending_users_lock' = FALSE
    /\ loop' = Idle
    /\ UNCHANGED <<features, sorted_users, now, pending_users, timers, verified_users, user_points, stats,
                   timeout_seconds, bot_paused, interaction_mode,
                   reward_system_enabled>>

\* ------------------------------------------------------------ timer threads
\* threading.Timer.run: the interval has passed and cancel() has not been
\* called, so the thread calls _kick_user_timeout.
TimerFire(t) ==
    /\ timers[t].st = "waiting"
    /\ now >= timers[t].at + timers[t].dur
    /\ timers' = [timers EXCEPT ![t] = [@ EXCEPT !.st = "fired", !.at = 0, !.dur = 0]]
    /\ UNCHANGED <<features, sorted_users, now, pending_users, verified_users, user_points, stats,
                   timeout_seconds, bot_paused, interaction_mode,
                   reward_system_enabled, pending_users_lock, loop>>

\* Faulty variant: the entry found is left in the mapping.
ExpireEntryKeepsEntry(t) ==
    /\ timers' = [timers EXCEPT ![t].st =
                     IF HasEntry(timers[t].key) THEN "removed" ELSE "dead"]
    /\ UNCHANGED pending_users

\* Lines 254-260: the locked block of _kick_user_timeout. The entry deleted is
\* whatever entry the key has now.
ExpireEntry(t) ==
    LET k == timers[t].key IN
    IF HasEntry(k)
    THEN /\ timers' = [timers EXCEPT ![pending_users[k].timer].sess = "expired",
                                     ![t].st = "removed"]
         /\ pending_users' = [pending_users EXCEPT ![k] = NoEntry]
    ELSE /\ timers' = [timers EXCEPT ![t] = DeadTimer]
         /\ UNCHANGED pending_users

TimerLocked(t) ==
    /\ timers[t].st = "fired"
    /\ ~pending_users_lock
    /\ ExpireEntry(t)
    /\ UNCHANGED <<features, sorted_users, now, verified_users, user_points, stats, timeout_seconds,
                   bot_paused, interaction_mode, reward_system_enabled,
                   pending_users_lock, loop>>

\* Faulty variant: the verified test left out.
AfterVerifiedCheckSkipped(t) == [timers[t] EXCEPT !.st = "kicking"]

\* Faulty variant: the test looks at the pending mapping instead of the
\* verified set.
AfterVerifiedCheckPendingTest(t) ==
    IF HasEntry(timers[t].key)
    THEN DeadTimer
    ELSE [timers[t] EXCEPT !.st = "kicking"]

\* Lines 262-271: outside the lock; a verified key is not kicked, otherwise
\* kick_user starts and calls ban_chat_member.
AfterVerifiedCheck(t) ==
    IF timers[t].key \in verified_users
    THEN DeadTimer
    ELSE [timers[t] EXCEPT !.st = "kicking"]

TimerCheckVerified(t) ==
    /\ timers[t].st = "removed"
    /\ timers' = [timers EXCEPT ![t] = AfterVerifiedCheck(t)]
    /\ UNCHANGED <<features, sorted_users, now, pending_users, verified_users, user_points, stats,
                   timeout_seconds, bot_paused, interaction_mode,
                   reward_system_enabled, pending_users_lock, loop>>

GatewayOutcomes == {"ok", "error"}

\* Lines 271-304: ban, unban and the notice; users_kicked is counted after all
\* three calls have returned, and an exception of any of them skips the rest.
KickedAfter(outcome) ==
    IF outcome = "ok" THEN stats.users_kicked + 1 ELSE stats.users_kicked

TimerKickReturns(t) ==
    /\ timers[t].st = "kicking"
    /\ \E outcome \in GatewayOutcomes :
        /\ timers' = [timers EXCEPT ![t] = DeadTimer]
        /\ stats' = [stats EXCEPT !.users_kicked = KickedAfter(outcome)]
    /\ UNCHANGED <<features, sorted_users, now, pending_users, verified_users, user_points,
                   timeout_seconds, bot_paused, interaction_mode,
                   reward_system_enabled, pending_users_lock, loop>>

\* ----------------------------------------------------------- text messages
\* Faulty variant: the test for an entry left out.
TextStartsTimerNoPendingTest(k) ==
    /\ interaction_mode
    /\ ~bot_paused
    /\ k \notin verified_users

\* Faulty variant: the paused test left out.
TextStartsTimerIgnoresPause(k) ==
    /\ interaction_mode
    /\ ~HasEntry(k)
    /\ k \notin verified_users

\* Lines 751 and 760: the tests made before the lock is taken.
TextStartsTimer(k) ==
    /\ interaction_mode
    /\ ~bot_paused
    /\ ~HasEntry(k)
    /\ k \notin verified_users

\* handle_text_message, lines 748-760: the tests, made without the lock.
HandleTextMessage(k) ==
    /\ loop = Idle
    /\ IF TextStartsTimer(k)
       THEN /\ NextTimer <= MaxTimers
            /\ loop' = [pc |-> "text_arm", key |-> k]
            /\ UNCHANGED <<features, sorted_users, now, pending_users, timers, verified_users, user_points,
                           stats, timeout_seconds, bot_paused, interaction_mode,
                           reward_system_enabled, pending_users_lock>>
       ELSE UNCHANGED vars

\* Lines 762-775: the locked block; an entry the key has by now is overwritten
\* and its timer is left running. The reminder is sent after the block.
OverwriteExisting(k, t) ==
    IF HasEntry(k) /\ t = pending_users[k].timer
    THEN [timers[t] EXCEPT !.sess = "replaced"]
    ELSE timers[t]

TextArmsTimer ==
    /\ loop.pc = "text_arm"
    /\ ~pending_users_lock
    /\ timers' = [t \in TimerIds |->
                     IF t = NextTimer THEN NewTimer(loop.key)
                     ELSE OverwriteExisting(loop.key, t)]
    /\ pending_users' = [pending_users EXCEPT
                           ![loop.key] = [timer |-> NextTimer, join_time |-> now]]
    /\ loop' = Idle
    /\ UNCHANGED <<features, sorted_users, now, verified_users, user_points, stats, timeout_seconds,
                   bot_paused, interaction_mode, reward_system_enabled,
                   pending_users_lock>>

\* ------------------------------------------------------------ spam handling
\* A message is what the handlers and their filters look at: its kind (a
\* video, plain text, or something else such as a photo), its text (None
\* unless it is a text message) as the list of the fragments it is made of,
\* and the sender's username and full name as such a list.
NoText == <<"None">>
Texts == {<<"hello">>, <<"T.ME">>, <<"Buy Now">>, <<"http", "spam">>,
          <<"hello", "crypto">>}
Identities == {<<"alice">>, <<"Crypto", "king">>}
Messages ==
    [kind : {"text"}, text : Texts, identity : Identities]
        \cup [kind : {"video", "photo"}, text : {NoText}, identity : Identities]

\* str.lower() on a fragment.
Lower(w) ==
    CASE w = "T.ME" -> "t.me"
      [] w = "Buy Now" -> "buy now"
      [] w = "Crypto" -> "crypto"
      [] OTHER -> w

\* Line 815, line 62 and lines 841-844.
LinkMarkers == {"http", "www.", ".com", ".org", "t.me"}
banned_words == {"spam", "promotion", "advertisement", "buy now", "click here"}
suspicious_patterns ==
    {"crypto", "bitcoin", "forex", "investment", "profit", "earn", "casino",
     "betting", "loan", "pharmacy", "pills"}

\* any(word in fragments.lower() for word in words)
ContainsAny(fragments, words) ==
    \E i \in 1..Len(fragments) : Lower(fragments[i]) \in words

\* _is_suspicious_username, lines 835-847.
IsSuspiciousUsername(identity) == ContainsAny(identity, suspicious_patterns)

\* Lines 814-830: the first check that matches names the counter.
SpamVerdict(msg) ==
    IF msg.text # NoText /\ ContainsAny(msg.text, LinkMarkers)
    THEN "links_blocked"
    ELSE IF msg.text # NoText /\ ContainsAny(msg.text, banned_words)
    THEN "spam_blocked"
    ELSE IF IsSuspiciousUsername(msg.identity)
    THEN "suspicious_kicked"
    ELSE "clean"

\* Faulty variant: the verified test left out.
SpamOutcomeNoVerifiedTest(k, msg) ==
    IF ~anti_spam_enabled \/ bot_paused THEN "clean" ELSE SpamVerdict(msg)

\* Lines 798-830: what handle_spam_detection makes of a message of sender k.
SpamOutcome(k, msg) ==
    IF ~anti_spam_enabled \/ bot_paused THEN "clean"
    ELSE IF k \in verified_users THEN "clean"
    ELSE SpamVerdict(msg)

\* Lines 857-860: the counter is raised after delete_message has returned; an
\* exception of delete_message skips the rest of _handle_spam_violation.
StatsAfterViolation(stat_key, deleted) ==
    IF deleted = "ok" THEN [stats EXCEPT ![stat_key] = @ + 1] ELSE stats

\* handle_spam_detection up to the await of delete_message (lines 795-857):
\* the tests are made and, for a violation, _handle_spam_violation is
\* entered with the counter's name and waits for delete_message.
HandleSpamDetection(k, msg) ==
    /\ loop = Idle
    /\ IF SpamOutcome(k, msg) = "clean"
       THEN UNCHANGED vars
       ELSE /\ stats.spam_blocked + stats.links_blocked
                  + stats.suspicious_kicked < MaxSpam
            /\ loop' = [pc |-> "spam_delete", key |-> k,
                        stat_key |-> SpamOutcome(k, msg)]
            /\ UNCHANGED <<features, sorted_users, now, pending_users, timers,
                           verified_users, user_points, stats, timeout_seconds,
                           bot_paused, interaction_mode, reward_system_enabled,
                           pending_users_lock>>

\* Lines 857-863: delete_message returns, the counter is raised and
\* ban_chat_member is awaited; or delete_message raises and the handler is
\* over.
SpamDeleteReturns ==
    /\ loop.pc = "spam_delete"
    /\ \E deleted \in GatewayOutcomes :
        /\ stats' = StatsAfterViolation(loop.stat_key, deleted)
        /\ loop' = (IF deleted = "ok" THEN [pc |-> "spam_ban", key |-> loop.key]
                    ELSE Idle)
    /\ UNCHANGED <<features, sorted_users, now, pending_users, timers,
                   verified_users, user_points, timeout_seconds, bot_paused,
                   interaction_mode, reward_system_enabled, pending_users_lock>>

\* Lines 863-877: ban, unban and the notice return or raise; either way the
\* handler is over and nothing else is written.
SpamBanReturns ==
    /\ loop.pc = "spam_ban"
    /\ loop' = Idle
    /\ UNCHANGED <<features, sorted_users, now, pending_users, timers,
                   verified_users, user_points, stats, timeout_seconds, bot_paused,
                   interaction_mode, reward_system_enabled, pending_users_lock>>

\* Lines 85-127: every handler is added to the same group, so a message goes
\* to the first handler whose filter accepts it and to no other. The video
\* filter comes first, then filters.TEXT & ~filters.COMMAND, then
\* ~filters.COMMAND.
Dispatch(msg) ==
    IF msg.kind = "video" THEN "handle_video_message"
    ELSE IF msg.text # NoText THEN "handle_text_message"
    ELSE "handle_spam_detection"

\* A message of sender k that is not a command arrives.
OnMessage(k, msg) ==
    CASE Dispatch(msg) = "handle_video_message" -> HandleVideoMessage(k)
      [] Dispatch(msg) = "handle_text_message" -> HandleTextMessage(k)
      [] Dispatch(msg) = "handle_spam_detection" -> HandleSpamDetection(k, msg)

\* ---------------------------------------------------------------- commands
Roles == {"administrator", "creator", "member"}

\* Faulty variant: every caller passes.
IsAdminAnyRole(role) == role \in Roles

\* Lines 393, 483, 502, 549, 575, 630, 658, 715: the caller's status as
\* get_chat_member reports it.
IsAdmin(role) == role \in {"administrator", "creator"}

\* A command argument: int() accepts it (num) or raises ValueError.
IntArg(n) == [num |-> TRUE, val |-> n]
BadArg == [num |-> FALSE, val |-> 0]
SetTimerArgs ==
    {<<>>, <<BadArg>>, <<IntArg(MinTimeout), IntArg(MaxTimeout)>>}
        \cup {<<IntArg(n)>> : n \in {MinTimeout - 1, MinTimeout, MaxTimeout,
                                     MaxTimeout + 1}}

\* Faulty variant: the upper limit left out.
TimeoutInRangeNoUpper(n) == ~(n < MinTimeout)

\* Line 406.
TimeoutInRange(n) == ~(n < MinTimeout \/ n > MaxTimeout)

\* Lines 397-415: the value settimer stores, or the old one when it refuses.
TimeoutAfter(args) ==
    IF Len(args) # 1 THEN timeout_seconds
    ELSE IF ~args[1].num THEN timeout_seconds
    ELSE IF ~TimeoutInRange(args[1].val) THEN timeout_seconds
    ELSE args[1].val

\* set_timer_command, lines 385-418.
SetTimerCommand(role, args) ==
    /\ loop = Idle
    /\ timeout_seconds' = (IF IsAdmin(role) THEN TimeoutAfter(args)
                           ELSE timeout_seconds)
    /\ UNCHANGED <<features, sorted_users, now, pending_users, timers, verified_users, user_points, stats,
                   bot_paused, interaction_mode, reward_system_enabled,
                   pending_users_lock, loop>>

\* pause_command, lines 475-492.
PauseCommand(role) ==
    /\ loop = Idle
    /\ bot_paused' = (IF IsAdmin(role) THEN TRUE ELSE bot_paused)
    /\ UNCHANGED <<features, sorted_users, now, pending_users, timers, verified_users, user_points, stats,
                   timeout_seconds, interaction_mode, reward_system_enabled,
                   pending_users_lock, loop>>

\* resume_command, lines 494-511.
ResumeCommand(role) ==
    /\ loop = Idle
    /\ bot_paused' = (IF IsAdmin(role) THEN FALSE ELSE bot_paused)
    /\ UNCHANGED <<features, sorted_users, now, pending_users, timers, verified_users, user_points, stats,
                   timeout_seconds, interaction_mode, reward_system_enabled,
                   pending_users_lock, loop>>

\* interaction_mode_command, lines 541-565.
InteractionModeCommand(role) ==
    /\ loop = Idle
    /\ interaction_mode' = (IF IsAdmin(role) THEN ~interaction_mode
                            ELSE interaction_mode)
    /\ UNCHANGED <<features, sorted_users, now, pending_users, timers, verified_users, user_points, stats,
                   timeout_seconds, bot_paused, reward_system_enabled,
                   pending_users_lock, loop>>

\* antispam_command, lines 567-591.
AntispamCommand(role) ==
    /\ loop = Idle
    /\ anti_spam_enabled' = (IF IsAdmin(role) THEN ~anti_spam_enabled
                             ELSE anti_spam_enabled)
    /\ UNCHANGED <<custom_welcome, scheduled_mode, active_hours, sorted_users, now,
                   pending_users, timers, verified_users, user_points, stats,
                   timeout_seconds, bot_paused, interaction_mode,
                   reward_system_enabled, pending_users_lock, loop>>

\* The words after /setwelcome.
WelcomeArgs == {<<>>, <<"Hello">>, <<"Hello", "{name}">>}

\* Lines 634-641: the template setwelcome stores (the words joined by single
\* spaces), or the old one when it only shows it.
WelcomeAfter(args) == IF Len(args) = 0 THEN custom_welcome ELSE args

\* set_welcome_command, lines 622-648.
SetWelcomeCommand(role, args) ==
    /\ loop = Idle
    /\ custom_welcome' = (IF IsAdmin(role) THEN WelcomeAfter(args)
                          ELSE custom_welcome)
    /\ UNCHANGED <<anti_spam_enabled, scheduled_mode, active_hours, sorted_users,
                   now, pending_users, timers, verified_users, user_points, stats,
                   timeout_seconds, bot_paused, interaction_mode,
                   reward_system_enabled, pending_users_lock, loop>>

\* rewards_command, lines 650-674.
RewardsCommand(role) ==
    /\ loop = Idle
    /\ reward_system_enabled' = (IF IsAdmin(role) THEN ~reward_system_enabled
                                 ELSE reward_system_enabled)
    /\ UNCHANGED <<features, sorted_users, now, pending_users, timers,
                   verified_users, user_points, stats, timeout_seconds, bot_paused,
                   interaction_mode, pending_users_lock, loop>>

\* The word "toggle" in any letter case: not a number, told from the other
\* words that are not numbers by its val.
ToggleArg == [num |-> FALSE, val |-> 1]
ScheduleArgs ==
    {<<>>, <<ToggleArg>>, <<ToggleArg, IntArg(0)>>, <<BadArg>>, <<IntArg(5)>>,
     <<IntArg(0), IntArg(LastHour)>>, <<IntArg(LastHour), IntArg(0)>>,
     <<IntArg(0 - 1), IntArg(5)>>, <<IntArg(9), IntArg(LastHour + 1)>>,
     <<IntArg(5), BadArg>>, <<BadArg, IntArg(5)>>,
     <<IntArg(1), IntArg(2), IntArg(3)>>}

\* Line 735.
HourInRange(n) == 0 <= n /\ n <= LastHour

\* Faulty variant: "toggle" switches scheduled mode on instead of flipping it.
ScheduledModeAfterSetsOn(args) ==
    IF Len(args) = 0 THEN scheduled_mode
    ELSE IF args[1] = ToggleArg THEN TRUE
    ELSE scheduled_mode

\* Lines 719-726: "toggle" as the first word flips the flag.
ScheduledModeAfter(args) ==
    IF Len(args) = 0 THEN scheduled_mode
    ELSE IF args[1] = ToggleArg THEN ~scheduled_mode
    ELSE scheduled_mode

\* Lines 731-741: two numbers, both in 0..23, are stored as the window.
ActiveHoursAfter(args) ==
    IF Len(args) = 0 THEN active_hours
    ELSE IF args[1] = ToggleArg THEN active_hours
    ELSE IF Len(args) # 2 THEN active_hours
    ELSE IF ~(args[1].num /\ args[2].num) THEN active_hours
    ELSE IF ~(HourInRange(args[1].val) /\ HourInRange(args[2].val))
         THEN active_hours
    ELSE [start |-> args[1].val, end |-> args[2].val]

\* schedule_command, lines 707-746.
ScheduleCommand(role, args) ==
    /\ loop = Idle
    /\ scheduled_mode' = (IF IsAdmin(role) THEN ScheduledModeAfter(args)
                          ELSE scheduled_mode)
    /\ active_hours' = (IF IsAdmin(role) THEN ActiveHoursAfter(args)
                        ELSE active_hours)
    /\ UNCHANGED <<anti_spam_enabled, custom_welcome, sorted_users, now,
                   pending_users, timers, verified_users, user_points, stats,
                   timeout_seconds, bot_paused, interaction_mode,
                   reward_system_enabled, pending_users_lock, loop>>

\* ------------------------------------------------------------- leaderboard
InsertAt(seq, i, item) ==
    SubSeq(seq, 1, i - 1) \o <<item>> \o SubSeq(seq, i, Len(seq))

\* Faulty variant: an item goes before the items of equal points.
InsertBeforeEqual(sorted, item) ==
    InsertAt(sorted,
             Cardinality({i \in 1..Len(sorted) :
                             sorted[i].points > item.points}) + 1,
             item)

\* The place sorted() gives an item among the items that came before it in
\* the dict: behind those of more points and, the sort being stable also
\* with reverse=True, behind those of equal points.
InsertAfterEqual(sorted, item) ==
    InsertAt(sorted,
             Cardinality({i \in 1..Len(sorted) :
                             sorted[i].points >= item.points}) + 1,
             item)

\* Line 684: sorted(self.user_points.items(), key=lambda x: x[1], reverse=True).
RECURSIVE SortedByPoints(_)
SortedByPoints(ledger) ==
    IF ledger = <<>> THEN <<>>
    ELSE InsertAfterEqual(SortedByPoints(SubSeq(ledger, 1, Len(ledger) - 1)),
                          ledger[Len(ledger)])

\* Line 688: sorted_users[:10].
Leaderboard(ledger) ==
    SubSeq(SortedByPoints(ledger), 1,
           IF Len(ledger) < LeaderboardSize THEN Len(ledger) ELSE LeaderboardSize)

\* leaderboard_command, lines 676-705: open to every caller; an empty ledger
\* is answered without a list.
LeaderboardCommand ==
    /\ loop = Idle
    /\ sorted_users' = (IF user_points = <<>> THEN sorted_users
                        ELSE Leaderboard(user_points))
    /\ UNCHANGED <<features, now, pending_users, timers, verified_users,
                   user_points, stats, timeout_seconds, bot_paused,
                   interaction_mode, reward_system_enabled, pending_users_lock,
                   loop>>

\* Joins, messages, timer threads, the clock and the interaction command.
TrackerNext ==
    \/ Tick
    \/ \E k \in Keys : HandleChatMemberUpdate(k)
    \/ \E k \in Keys : HandleNewMembers(k)
    \/ \E k \in Keys : HandleVideoMessage(k)
    \/ VideoSendReturns
    \/ \E k \in Keys : HandleTextMessage(k)
    \/ TextArmsTimer
    \/ \E t \in TimerIds : TimerFire(t)
    \/ \E t \in TimerIds : TimerLocked(t)
    \/ \E t \in TimerIds : TimerCheckVerified(t)
    \/ \E t \in TimerIds : TimerKickReturns(t)
    \/ \E role \in Roles : InteractionModeCommand(role)

\* The tracker with /pause and /resume, under the timeout the bot was built
\* with.
Next ==
    \/ TrackerNext
    \/ \E role \in Roles : PauseCommand(role)
    \/ \E role \in Roles : ResumeCommand(role)

Spec == Init /\ [][Next]_vars

\* The tracker with /settimer, never paused.
SettingsNext ==
    \/ TrackerNext
    \/ \E role \in Roles, args \in SetTimerArgs : SetTimerCommand(role, args)

SettingsSpec == Init /\ [][SettingsNext]_vars

\* The eight commands that test the caller's role, as one caller issues them.
AdminCommand(role) ==
    \/ \E args \in SetTimerArgs : SetTimerCommand(role, args)
    \/ PauseCommand(role)
    \/ ResumeCommand(role)
    \/ InteractionModeCommand(role)
    \/ AntispamCommand(role)
    \/ \E args \in WelcomeArgs : SetWelcomeCommand(role, args)
    \/ RewardsCommand(role)
    \/ \E args \in ScheduleArgs : ScheduleCommand(role, args)

\* The commands, with the first joins and their videos between them.
CommandsNext ==
    \/ \E role \in Roles : AdminCommand(role)
    \/ \E k \in Keys : stats.total_joins < CommandJoins /\ HandleNewMembers(k)
    \/ \E k \in Keys : HandleVideoMessage(k)
    \/ VideoSendReturns

CommandsSpec == Init /\ [][CommandsNext]_vars

\* The tracker with /rewards, never paused.
RewardsNext ==
    \/ TrackerNext
    \/ \E role \in Roles : RewardsCommand(role)

RewardsSpec == Init /\ [][RewardsNext]_vars

\* Ledgers of up to MaxLedger keys, entered in rising or in falling order of
\* the key, each key with the points of one or of two fast videos.
SamplePoints == {FastPoints, FastPoints + FastPoints}
SampleLedger(n, falling, pts) ==
    [i \in 1..n |-> [key |-> IF falling THEN n + 1 - i ELSE i, points |-> pts[i]]]
LedgerSamples ==
    UNION {{SampleLedger(n, falling, pts) :
                falling \in BOOLEAN, pts \in [1..n -> SamplePoints]} :
           n \in 0..MaxLedger}
RECURSIVE SumPoints(_)
SumPoints(ledger) ==
    IF ledger = <<>> THEN 0
    ELSE ledger[1].points + SumPoints(Tail(ledger))

\* The bot after the joins and fast videos that filled one of these ledgers.
LeaderboardInit ==
    /\ user_points \in LedgerSamples
    /\ verified_users = {user_points[i].key : i \in 1..Len(user_points)}
    /\ stats = [total_joins |-> SumPoints(user_points) \div FastPoints,
                users_verified |-> SumPoints(user_points) \div FastPoints,
                users_kicked |-> 0, spam_blocked |-> 0, links_blocked |-> 0,
                suspicious_kicked |-> 0]
    /\ now = 0
    /\ pending_users = [k \in Keys |-> NoEntry]
    /\ timers = [t \in TimerIds |->
                    IF t <= SumPoints(user_points) \div FastPoints
                    THEN DeadTimer ELSE NoTimer]
    /\ timeout_seconds = DefaultTimeout
    /\ bot_paused = FALSE
    /\ interaction_mode = FALSE
    /\ reward_system_enabled = TRUE
    /\ pending_users_lock = FALSE
    /\ loop = Idle
    /\ anti_spam_enabled = TRUE
    /\ custom_welcome = DefaultWelcome
    /\ scheduled_mode = FALSE
    /\ active_hours = [start |-> DefaultStartHour, end |-> DefaultEndHour]
    /\ sorted_users = <<>>

\* /leaderboard on each of these ledgers.
LeaderboardNext == LeaderboardCommand

LeaderboardSpec == LeaderboardInit /\ [][LeaderboardNext]_vars

\* The tracker with the messages as the application hands them out, /pause,
\* /resume and /antispam.
SpamNext ==
    \/ Next
    \/ \E k \in Keys, msg \in Messages : OnMessage(k, msg)
    \/ SpamDeleteReturns
    \/ SpamBanReturns
    \/ \E role \in Roles : AntispamCommand(role)

SpamSpec == Init /\ [][SpamNext]_vars

\* ===================================================================== claims
\* Steps, named for the claims.
VideoVerifies(k) == HasEntry(k) /\ HandleVideoMessage(k)
TimerExpires(t) ==
    timers[t].st = "fired" /\ HasEntry(timers[t].key) /\ TimerLocked(t)
LiveTimers(k) == {t \in TimerIds : timers[t].key = k /\ timers[t].st = "waiting"}

\* C1: a pending entry is consumed by exactly one of the video handler and the
\* timer callback. As long as the entry is there neither has consumed it: its
\* own timer has not left its locked block and its session is open (so a
\* session that ended Verified or Expired has no entry left to end the other
\* way). Once either has run on it the entry is gone: the timer thread that is
\* past its locked block and the video handler that is past its test have
\* left no entry of theirs behind, and the video handler's key is verified.
C1_ExactlyOneWinner ==
    /\ \A k \in Keys :
        HasEntry(k) =>
            /\ timers[pending_users[k].timer].key = k
            /\ timers[pending_users[k].timer].st \in {"waiting", "fired"}
            /\ timers[pending_users[k].timer].sess = "open"
    /\ \A t \in TimerIds :
        timers[t].sess = "verified" => timers[t].key \in verified_users
    /\ loop.pc = "video_send" =>
        /\ ~HasEntry(loop.key)
        /\ loop.key \in verified_users
        /\ pending_users_lock
\* The race: the video won and the session's timer callback is already running.
C1_Witness ==
    \E t \in TimerIds : timers[t].sess = "verified" /\ timers[t].st = "fired"

\* C2: a timer thread that expired the entry of an unverified key issues the
\* removal and leaves kick_user with users_kicked increased by exactly 1.
C2_ExpiryCountsOneKick ==
    [][\A t \in TimerIds :
          /\ (timers[t].st = "removed" /\ timers'[t].st # "removed"
                /\ timers[t].key \notin verified_users)
                => timers'[t].st = "kicking"
          /\ (timers[t].st = "kicking" /\ timers'[t].st # "kicking")
                => stats'.users_kicked = stats.users_kicked + 1]_vars

\* C3: a session that ended Verified is never kicked: its timer thread, when
\* the cancel came too late, never issues the removal and never changes
\* users_kicked; the verification counts users_verified exactly once.
C3_VerifiedThreadNeverKicks ==
    \A t \in TimerIds : timers[t].sess = "verified" => timers[t].st # "kicking"
C3_Counters ==
    /\ \A k \in Keys :
        VideoVerifies(k) =>
            /\ stats'.users_verified = stats.users_verified + 1
            /\ stats'.users_kicked = stats.users_kicked
    /\ \A t \in TimerIds :
        (timers[t].sess = "verified" /\ timers'[t] # timers[t]) =>
            /\ stats' = stats
            /\ timers'[t].st # "kicking"
C3_VerifiedNeverKicked == []C3_VerifiedThreadNeverKicks /\ [][C3_Counters]_vars
\* The late callback of a verified session has deleted the entry of a rejoin
\* and is about to test verified_users.
C3_Witness ==
    \E t \in TimerIds : timers[t].sess = "verified" /\ timers[t].st = "removed"

\* C4: no key is both pending and verified.
C4_PendingNotVerified ==
    \A k \in Keys : ~(HasEntry(k) /\ k \in verified_users)

\* C5: every key has at most one live (started, not cancelled, not yet fired)
\* timer.
C5_OneLiveTimer ==
    \A k \in Keys : Cardinality(LiveTimers(k)) <= 1

\* C6: first-interaction messages for one key arm one timer: a text handler
\* that has passed its tests (interaction mode on, not paused, no entry, not
\* verified) inserts into a key that still has no entry, so it never replaces
\* an entry and never leaves a replaced entry's timer running; a message that
\* finds the entry does not get that far.
C6_FirstInteractionOnce ==
    loop.pc = "text_arm" =>
        /\ ~HasEntry(loop.key)
        /\ loop.key \notin verified_users
        /\ interaction_mode /\ ~bot_paused
\* An entry armed by a first message (nobody has joined), its timer running.
C6_Witness ==
    \E k \in Keys :
        /\ HasEntry(k) /\ stats.total_joins = 0 /\ loop = Idle
        /\ LiveTimers(k) = {pending_users[k].timer}

\* C7: a join creates an entry and arms a timer exactly when the bot is not
\* paused and interaction mode is off; a join while paused leaves the pending
\* mapping, the timers, the verified set and the ledger as they are, whatever
\* the interaction mode; so does a join in interaction mode. The paused test
\* comes first: a paused bot answers with the paused welcome in either mode.
C7_Branch ==
    /\ bot_paused => NewMemberBranch = "paused"
    /\ (~bot_paused /\ interaction_mode) => NewMemberBranch = "interaction"
    /\ (~bot_paused /\ ~interaction_mode) => NewMemberBranch = "timer"
C7_Join ==
    \A k \in Keys :
        HandleNewMember(k) =>
            /\ (pending_users'[k] # pending_users[k] /\ timers' # timers
                    /\ timers'[pending_users'[k].timer].st = "waiting")
                <=> (~bot_paused /\ ~interaction_mode)
            /\ bot_paused => UNCHANGED tracker
            /\ interaction_mode => UNCHANGED tracker
C7_JoinArmsIffActive == []C7_Branch /\ [][C7_Join]_vars
\* Joins were handled and none of them armed a timer.
C7_Witness ==
    /\ stats.total_joins = MaxJoins
    /\ UsedTimers = {}
    /\ bot_paused /\ interaction_mode

\* C8: a timer thread that deletes an entry deletes the entry of the session
\* it was armed for.
C8_ExpiredByOwnTimer ==
    \A t \in TimerIds :
        timers[t].st \in {"removed", "kicking"} => timers[t].sess = "expired"

\* C9: settimer stores no value outside [10, 600]: with an argument below 10
\* or above 600 it keeps the timeout it had, and the timeout is in [10, 600]
\* in every state.
C9_SetTimerValidated ==
    /\ timeout_seconds >= MinTimeout /\ timeout_seconds <= MaxTimeout
    /\ \A args \in SetTimerArgs :
        (Len(args) = 1 /\ args[1].num
            /\ (args[1].val < MinTimeout \/ args[1].val > MaxTimeout))
            => TimeoutAfter(args) = timeout_seconds
\* settimer has stored the largest value it accepts.
C9_Witness == timeout_seconds = MaxTimeout

\* C10: a timer is armed with the timeout of the moment, and a waiting timer
\* keeps its interval and its start when the timeout is changed afterwards.
C10_Durations ==
    \A t \in TimerIds :
        /\ (timers[t].st = "unused" /\ timers'[t].st # "unused") =>
              /\ timers'[t].st = "waiting"
              /\ timers'[t].dur = timeout_seconds
              /\ timers'[t].at = now
        /\ (timers[t].st = "waiting" /\ timers'[t].st = "waiting") =>
              /\ timers'[t].dur = timers[t].dur
              /\ timers'[t].at = timers[t].at
C10_TimerKeepsDuration == [][C10_Durations]_vars
\* A timer armed before a change is waiting beside one armed after it.
C10_Witness ==
    \E t1 \in TimerIds, t2 \in TimerIds :
        /\ t1 < t2
        /\ timers[t1].st = "waiting" /\ timers[t2].st = "waiting"
        /\ timers[t1].dur = DefaultTimeout
        /\ timers[t2].dur = MinTimeout
        /\ timeout_seconds = MinTimeout

\* C11: an admin-gated command (settimer, pause, resume, interaction, antispam,
\* setwelcome, rewards, schedule) of a caller who is neither administrator nor
\* creator changes nothing: not the settings, not the pending mapping, the
\* verified set, the ledger or the counters.
C11_NonAdminRejected ==
    [][\A role \in Roles :
          (role \notin {"administrator", "creator"} /\ AdminCommand(role))
              => UNCHANGED vars]_vars
\* Every setting has been changed by an admin, a key is pending, a key is
\* verified and has points: a command let through would show.
C11_Witness ==
    /\ timeout_seconds = MaxTimeout /\ bot_paused /\ interaction_mode
    /\ ~anti_spam_enabled /\ ~reward_system_enabled /\ scheduled_mode
    /\ custom_welcome = <<"Hello", "{name}">>
    /\ active_hours = [start |-> LastHour, end |-> 0]
    /\ \E k \in Keys : HasEntry(k)
    /\ verified_users # {} /\ user_points # <<>>

\* A key's total in a ledger, 0 for a key the ledger does not have.
TotalIn(ledger, k) ==
    IF \E i \in 1..Len(ledger) : ledger[i].key = k
    THEN ledger[CHOOSE i \in 1..Len(ledger) : ledger[i].key = k].points
    ELSE 0
\* The elapsed times the tiers are compared on.
ElapsedRange == 0..45

\* C12: with rewards on, a verification after e seconds awards 100 points for
\* e <= 10, 50 for 10 < e <= 30 and 25 beyond, and adds exactly that to the
\* key's total, leaving every other total alone.
C12_Tiers ==
    /\ \A e \in ElapsedRange :
        AwardFor(e) = (IF e <= 10 THEN 100 ELSE IF e <= 30 THEN 50 ELSE 25)
    /\ reward_system_enabled =>
        \A k \in Keys, e \in ElapsedRange :
            /\ TotalIn(LedgerAfter(k, e), k) = Total(k) + AwardFor(e)
            /\ \A j \in Keys \ {k} : TotalIn(LedgerAfter(k, e), j) = Total(j)
C12_Step ==
    \A k \in Keys :
        (VideoVerifies(k) /\ reward_system_enabled) =>
            /\ TotalIn(user_points', k)
                  = Total(k) + AwardFor(now - pending_users[k].join_time)
            /\ \A j \in Keys \ {k} : TotalIn(user_points', j) = Total(j)
C12_AwardByElapsed == []C12_Tiers /\ [][C12_Step]_vars
\* A key has been paid in the fast tier at exactly 10 seconds and in the
\* medium tier at exactly 30, and another key in the regular tier.
C12_Witness ==
    \E k \in Keys, j \in Keys :
        /\ Total(k) = FastPoints + MediumPoints
        /\ Total(j) = RegularPoints

\* C13: with rewards off, a verification leaves the ledger as it is (no total
\* changes, no key is added), and still adds the key to the verified set and
\* counts users_verified.
C13_LedgerKept ==
    ~reward_system_enabled =>
        \A k \in Keys, e \in ElapsedRange : LedgerAfter(k, e) = user_points
C13_Step ==
    \A k \in Keys :
        (VideoVerifies(k) /\ ~reward_system_enabled) =>
            /\ user_points' = user_points
            /\ k \in verified_users'
            /\ stats'.users_verified = stats.users_verified + 1
C13_NoAwardWhenDisabled == []C13_LedgerKept /\ [][C13_Step]_vars
\* A key was verified with rewards off and is not in the ledger, which has
\* the points of another key.
C13_Witness ==
    /\ loop.pc = "video_send" /\ ~reward_system_enabled
    /\ loop.key \notin LedgerKeys
    /\ user_points # <<>>

\* Where an item shown stands in the ledger.
PlaceIn(ledger, item) == CHOOSE i \in 1..Len(ledger) : ledger[i] = item

\* C14: the leaderboard lists ledger entries by falling points, entries of
\* equal points in the order their keys entered the ledger, cut to the first
\* 10 (whoever is left out ranks behind everyone shown); the command leaves
\* the ledger as it is.
C14_Order ==
    LET shown == Leaderboard(user_points) IN
    /\ Len(shown) <= 10
    /\ Len(shown) = (IF Len(user_points) < 10 THEN Len(user_points) ELSE 10)
    /\ \A i \in 1..Len(shown) : \E p \in 1..Len(user_points) : shown[i] = user_points[p]
    /\ \A i \in 1..Len(shown), j \in 1..Len(shown) :
        i < j =>
            /\ shown[i].points >= shown[j].points
            /\ shown[i].points = shown[j].points
                  => PlaceIn(user_points, shown[i]) < PlaceIn(user_points, shown[j])
    /\ \A p \in 1..Len(user_points) :
        (\A i \in 1..Len(shown) : shown[i] # user_points[p]) =>
            \A i \in 1..Len(shown) :
                /\ shown[i].points >= user_points[p].points
                /\ shown[i].points = user_points[p].points
                      => PlaceIn(user_points, shown[i]) < p
    /\ sorted_users # <<>> => sorted_users = shown
C14_Step == LeaderboardCommand => user_points' = user_points
C14_LeaderboardOrdered == []C14_Order /\ [][C14_Step]_vars
\* A ledger of more than 10 keys was shown: 10 entries, with a tie among
\* them and an entry left out that ties with the last one shown.
C14_Witness ==
    /\ Len(user_points) > 10
    /\ Len(sorted_users) = 10
    /\ sorted_users[1].points > sorted_users[10].points
    /\ sorted_users[9].points = sorted_users[10].points
    /\ \E p \in 1..Len(user_points) :
        /\ user_points[p].points = sorted_users[10].points
        /\ \A i \in 1..10 : sorted_users[i] # user_points[p]

\* The counters after the application has handled a message of sender k
\* whose deletion, if one is tried, ends as given.
StatsAfterMessage(k, msg, deleted) ==
    IF Dispatch(msg) = "handle_spam_detection" /\ SpamOutcome(k, msg) # "clean"
    THEN StatsAfterViolation(SpamOutcome(k, msg), deleted)
    ELSE stats
SpamCounters == {"links_blocked", "spam_blocked", "suspicious_kicked"}
HasLink(msg) == msg.text # NoText /\ ContainsAny(msg.text, LinkMarkers)
HasBannedWord(msg) == msg.text # NoText /\ ContainsAny(msg.text, banned_words)
\* The counter the priority link, banned word, suspicious identity names.
FirstMatch(msg) ==
    IF HasLink(msg) THEN "links_blocked"
    ELSE IF HasBannedWord(msg) THEN "spam_blocked"
    ELSE IF IsSuspiciousUsername(msg.identity) THEN "suspicious_kicked"
    ELSE "clean"

\* C15: with anti-spam on, the bot not paused and the sender not verified,
\* every message that matches a check raises the counter of the first check
\* it matches, in the order link, banned word, suspicious identity, by
\* exactly 1 and leaves the other two counters alone; a message with a link
\* and a banned word raises links_blocked only.
C15_FirstMatchCounted ==
    \A k \in Keys, msg \in Messages, deleted \in GatewayOutcomes :
        (anti_spam_enabled /\ ~bot_paused /\ k \notin verified_users
            /\ FirstMatch(msg) # "clean"
            /\ stats.spam_blocked + stats.links_blocked
                  + stats.suspicious_kicked < MaxSpam) =>
            \A c \in SpamCounters :
                StatsAfterMessage(k, msg, deleted)[c]
                    = (IF c = FirstMatch(msg) THEN stats[c] + 1 ELSE stats[c])

\* C16: with anti-spam off, or for a verified sender, every message is
\* clean: no deletion, no counter raised, no removal. A spam counter is
\* raised, and a removal is started, only with anti-spam on and for a sender
\* who is not verified.
C16_Clean ==
    /\ \A k \in Keys, msg \in Messages :
        (~anti_spam_enabled \/ k \in verified_users)
            => SpamOutcome(k, msg) = "clean"
    /\ loop.pc \in {"spam_delete", "spam_ban"}
        => (anti_spam_enabled /\ loop.key \notin verified_users)
C16_Step ==
    /\ (loop.pc # "spam_delete" /\ loop'.pc = "spam_delete") =>
        /\ anti_spam_enabled
        /\ loop'.key \notin verified_users
    /\ ((\E c \in SpamCounters : stats'[c] # stats[c])
            \/ (loop.pc # "spam_ban" /\ loop'.pc = "spam_ban")) =>
        /\ anti_spam_enabled
        /\ loop.pc = "spam_delete"
        /\ loop'.pc = "spam_ban"
        /\ loop'.key = loop.key
        /\ loop'.key \notin verified_users
C16_CleanWhenOffOrVerified == []C16_Clean /\ [][C16_Step]_vars
\* Spam was acted on before; by now anti-spam is off and a sender is verified.
C16_Witness ==
    /\ ~anti_spam_enabled
    /\ verified_users # {}
    /\ stats.suspicious_kicked > 0
    /\ loop = Idle

\* C17: when the spam handler has removed a sender, the sender's key has no
\* pending entry left.
C17_SpamClearsPending ==
    [][\A k \in Keys :
          (loop = [pc |-> "spam_ban", key |-> k] /\ SpamBanReturns)
              => pending_users'[k] = NoEntry]_vars

\* C18: no handler is inside a gateway call (sending a message, removing a
\* member, deleting a message) while pending_users_lock is held.
C18_NoGatewayUnderLock ==
    pending_users_lock => loop.pc \notin {"video_send", "spam_delete", "spam_ban"}

\* C19: a removal that fails during a timer expiry is still counted: the
\* thread that is inside kick_user leaves it with users_kicked raised by 1
\* when the gateway raises, and the entry it deleted is not put back.
C19_FailedRemovalCounted ==
    \A t \in TimerIds :
        timers[t].st = "kicking" =>
            /\ KickedAfter("error") = stats.users_kicked + 1
            /\ pending_users[timers[t].key].timer # t

\* C20: the verified set only grows: no step takes a key out of it.
C20_VerifiedAppendOnly == [][verified_users \subseteq verified_users']_vars
\* Every key is verified, after a spam removal and a kick by timeout.
C20_Witness ==
    /\ verified_users = Keys
    /\ stats.users_kicked > 0
    /\ stats.suspicious_kicked > 0

\* C21: no step lowers a key's total or takes a key out of the ledger, the
\* /rewards switch included; the ledger changes only in the step in which a
\* video verifies a key, and only that key's total.
C21_Step ==
    /\ \A k \in Keys : TotalIn(user_points', k) >= Total(k)
    /\ \A i \in 1..Len(user_points) :
        /\ i <= Len(user_points')
        /\ user_points'[i].key = user_points[i].key
    /\ user_points' # user_points =>
        \E k \in Keys :
            /\ VideoVerifies(k)
            /\ \A j \in Keys \ {k} : TotalIn(user_points', j) = Total(j)
C21_PointsNeverDecrease == [][C21_Step]_vars
\* A key was paid twice, the second award smaller than the first, and the
\* switch is off by now.
C21_Witness ==
    /\ ~reward_system_enabled
    /\ \E k \in Keys : Total(k) = FastPoints + RegularPoints

\* C22: one join of one user, reported by the platform as a status update
\* and as a service message, raises total_joins by exactly 1.
C22_JoinCountedOnce ==
    TotalJoinsAfter(JoinReports) = stats.total_joins + 1

\* C23: while the paused flag is set no timer thread issues a removal, also
\* not for an entry armed before the pause.
C23_NoKickWhilePaused ==
    [][\A t \in TimerIds :
          (timers[t].st # "kicking" /\ timers'[t].st = "kicking")
              => ~bot_paused]_vars

\* The hours of the day that lie outside the window [start, end].
OutsideHours ==
    {h \in 0..LastHour : ~(active_hours.start <= h /\ h <= active_hours.end)}

\* C24: with scheduled mode on, a join or a first text message at an hour
\* outside the window arms no timer. The hour is not an input of the join
\* and text handlers, so what they do at an hour outside the window is what
\* they do at any hour.
C24_InactiveOutsideHours ==
    (scheduled_mode /\ OutsideHours # {}) =>
        /\ NewMemberBranch # "timer"
        /\ \A k \in Keys : ~TextStartsTimer(k)

\* C25: with anti-spam on and the sender not verified, a message whose text
\* holds a link marker is classified as a link violation, whatever the other
\* settings are, the paused flag included.
C25_LinkAlwaysViolation ==
    \A k \in Keys, msg \in Messages :
        (anti_spam_enabled /\ k \notin verified_users /\ HasLink(msg)) =>
            /\ Dispatch(msg) = "handle_spam_detection"
            /\ SpamOutcome(k, msg) = "links_blocked"

\* C26: a text message arms a timer and creates an entry for its sender
\* exactly when interaction mode is on, the bot is not paused, the key has no
\* entry and is not verified; the handler's tests change neither the pending
\* mapping nor a timer, and the arming that follows them gives the key an
\* entry with a started timer of its own.
C26_Decision ==
    \A k \in Keys :
        TextStartsTimer(k) <=>
            (interaction_mode /\ ~bot_paused /\ pending_users[k] = NoEntry
                /\ k \notin verified_users)
C26_Step ==
    \A k \in Keys :
        /\ HandleTextMessage(k) =>
            /\ loop'.pc = "text_arm" <=>
                  (interaction_mode /\ ~bot_paused /\ pending_users[k] = NoEntry
                      /\ k \notin verified_users)
            /\ pending_users' = pending_users
            /\ timers' = timers
        /\ (loop = [pc |-> "text_arm", key |-> k] /\ TextArmsTimer) =>
            /\ pending_users'[k].timer # 0
            /\ pending_users'[k].timer = NextTimer
            /\ timers'[NextTimer].st = "waiting"
            /\ timers'[NextTimer].key = k
            /\ \A j \in Keys \ {k} : pending_users'[j] = pending_users[j]
C26_TextArmsIff == []C26_Decision /\ [][C26_Step]_vars
\* Nobody has joined: a key was armed by its text and verified by its video,
\* and another key armed by its text is waiting.
C26_Witness ==
    /\ stats.total_joins = 0
    /\ interaction_mode
    /\ verified_users # {}
    /\ \E k \in Keys :
        HasEntry(k) /\ timers[pending_users[k].timer].st = "waiting"

\* The keys whose pending entry, timer, verified membership or ledger total
\* differs between a state and its successor.
TouchedKeys ==
    {k \in Keys :
        \/ pending_users'[k] # pending_users[k]
        \/ (k \in verified_users') # (k \in verified_users)
        \/ TotalIn(user_points', k) # Total(k)
        \/ \E t \in TimerIds :
            timers'[t] # timers[t] /\ k \in {timers[t].key, timers'[t].key}}
\* A join, a first text, a video or a step of a timer thread, for key k.
OperationOn(k) ==
    \/ HandleNewMembers(k)
    \/ HandleChatMemberUpdate(k)
    \/ HandleTextMessage(k)
    \/ loop = [pc |-> "text_arm", key |-> k] /\ TextArmsTimer
    \/ HandleVideoMessage(k)
    \/ \E t \in TimerIds :
        /\ timers[t].key = k
        /\ TimerFire(t) \/ TimerLocked(t) \/ TimerCheckVerified(t) \/ TimerKickReturns(t)

\* C27: a join, a first text message, a video and a timer thread's steps for
\* key k leave the pending entry, the timers, the verified membership and the
\* ledger total of every other key as they were; no step of the tracker
\* touches two keys.
C27_Step ==
    /\ \A k \in Keys : OperationOn(k) => TouchedKeys \subseteq {k}
    /\ Cardinality(TouchedKeys) <= 1
C27_KeysIndependent == [][C27_Step]_vars
\* One key has just been verified by its video while the other key's entry
\* and running timer are still there.
C27_Witness ==
    /\ loop.pc = "video_send"
    /\ loop.key \in verified_users
    /\ Total(loop.key) > 0
    /\ \E j \in Keys \ {loop.key} :
        /\ HasEntry(j)
        /\ timers[pending_users[j].timer].st = "waiting"
        /\ timers[pending_users[j].timer].key = j

\* ---------------------------------------------------------------- progress
\* The last instant of the model's clock; a timer armed so late that it would
\* be due after it never fires in the model, so arming stops before that.
LastInstant == 40
ArmedInTime == now + timeout_seconds <= LastInstant

\* The tracker with every arming step in time for its timer to become due.
LiveNext ==
    \/ Tick
    \/ \E k \in Keys : ArmedInTime /\ HandleChatMemberUpdate(k)
    \/ \E k \in Keys : ArmedInTime /\ HandleNewMembers(k)
    \/ \E k \in Keys : HandleVideoMessage(k)
    \/ VideoSendReturns
    \/ \E k \in Keys : HandleTextMessage(k)
    \/ ArmedInTime /\ TextArmsTimer
    \/ \E t \in TimerIds : TimerFire(t)
    \/ \E t \in TimerIds : TimerLocked(t)
    \/ \E t \in TimerIds : TimerCheckVerified(t)
    \/ \E t \in TimerIds : TimerKickReturns(t)
    \/ \E role \in Roles : InteractionModeCommand(role)
    \/ \E role \in Roles : PauseCommand(role)
    \/ \E role \in Roles : ResumeCommand(role)

\* Time passes, a started threading.Timer runs its callback once it is due,
\* a thread waiting for the lock gets it once it stays free, and an awaited
\* gateway call returns.
LiveFairness ==
    /\ WF_vars(Tick)
    /\ WF_vars(VideoSendReturns)
    /\ \A t \in TimerIds :
        /\ WF_vars(TimerFire(t))
        /\ WF_vars(TimerLocked(t))
        /\ WF_vars(TimerCheckVerified(t))
        /\ WF_vars(TimerKickReturns(t))

LiveSpec == Init /\ [][LiveNext]_vars /\ LiveFairness

\* C28: with timers that fire, gateway calls that return and finitely many
\* rejoins, every key that has a pending entry loses it again, and an entry
\* leaves the mapping only through the key's video or a timer callback for
\* that key.
C28_Removal ==
    \A k \in Keys :
        (HasEntry(k) /\ ~(pending_users'[k].timer # 0)) =>
            \/ VideoVerifies(k)
            \/ \E t \in TimerIds : timers[t].key = k /\ TimerLocked(t)
C28_EntryEventuallyDestroyed ==
    /\ \A k \in Keys : HasEntry(k) ~> ~HasEntry(k)
    /\ [][C28_Removal]_vars
\* One key's entry has been deleted by its timer's callback, after another
\* key's entry was deleted by a video.
C28_Witness ==
    \E t \in TimerIds :
        /\ timers[t].st = "removed"
        /\ ~HasEntry(timers[t].key)
        /\ verified_users # {}
        /\ timers[t].key \notin verified_users

\* C29: the timeout path never removes a key that is in the verified set when
\* its timer fires: a callback starts the removal only for a key that is not
\* verified, and a step of a timer whose key is verified neither starts a
\* removal nor changes users_kicked.
C29_Step ==
    \A t \in TimerIds :
        /\ (timers[t].st # "kicking" /\ timers'[t].st = "kicking") =>
            timers[t].key \notin verified_users
        /\ (/\ timers[t].st \in {"waiting", "fired", "removed"}
            /\ timers[t].key \in verified_users
            /\ timers'[t] # timers[t]) =>
            /\ timers'[t].st # "kicking"
            /\ stats'.users_kicked = stats.users_kicked
C29_VerifiedKeyNotKicked == [][C29_Step]_vars
\* A verified key was armed again, and the callback of that timer has deleted
\* the entry and is about to test verified_users.
C29_Witness ==
    \E t \in TimerIds :
        /\ timers[t].st = "removed"
        /\ timers[t].sess = "expired"
        /\ timers[t].key \in verified_users

\* C30: a key that is already verified is never awarded points again and
\* never counted in users_verified again, whatever joins and videos follow.
C30_NoSecondReward ==
    [][\A k \in verified_users :
          /\ TotalIn(user_points', k) = Total(k)
          /\ stats'.users_verified # stats.users_verified => loop'.key # k]_vars

\* The settings the commands write, and the same with one left out.
SettingNames ==
    {"timeout_seconds", "bot_paused", "interaction_mode", "anti_spam_enabled",
     "custom_welcome", "reward_system_enabled", "scheduled_mode", "active_hours"}
SettingChanged(name) ==
    CASE name = "timeout_seconds" -> timeout_seconds' # timeout_seconds
      [] name = "bot_paused" -> bot_paused' # bot_paused
      [] name = "interaction_mode" -> interaction_mode' # interaction_mode
      [] name = "anti_spam_enabled" -> anti_spam_enabled' # anti_spam_enabled
      [] name = "custom_welcome" -> custom_welcome' # custom_welcome
      [] name = "reward_system_enabled" -> reward_system_enabled' # reward_system_enabled
      [] name = "scheduled_mode" -> scheduled_mode' # scheduled_mode
      [] name = "active_hours" -> active_hours' # active_hours
OnlySettingTouched(name) == \A other \in SettingNames \ {name} : ~SettingChanged(other)
ToggleWords == {args \in ScheduleArgs : Len(args) > 0 /\ args[1] = ToggleArg}

\* C31: for an admin, each of /interaction, /antispam, /rewards and
\* /schedule toggle negates its flag and leaves every other setting alone, so
\* the second of two applications gives the flag its first value back; /pause
\* gives paused and /resume gives not paused whatever the flag was, and
\* neither touches another setting.
Flips(command, name, before, after) ==
    /\ ENABLED command
    /\ ~ENABLED (command /\ ~(after = ~before /\ (~after) = before
                                /\ OnlySettingTouched(name)))
Sets(command, value, after) ==
    /\ ENABLED command
    /\ ~ENABLED (command /\ ~(after = value /\ OnlySettingTouched("bot_paused")))
C31_TogglesAndPause ==
    \A role \in {r \in Roles : IsAdmin(r)} :
        loop = Idle =>
            /\ Flips(InteractionModeCommand(role), "interaction_mode",
                     interaction_mode, interaction_mode')
            /\ Flips(AntispamCommand(role), "anti_spam_enabled",
                     anti_spam_enabled, anti_spam_enabled')
            /\ Flips(RewardsCommand(role), "reward_system_enabled",
                     reward_system_enabled, reward_system_enabled')
            /\ \A args \in ToggleWords :
                Flips(ScheduleCommand(role, args), "scheduled_mode",
                      scheduled_mode, scheduled_mode')
            /\ Sets(PauseCommand(role), TRUE, bot_paused')
            /\ Sets(ResumeCommand(role), FALSE, bot_paused')
\* Every flag differs from the value the bot starts with.
C31_Witness ==
    /\ interaction_mode
    /\ ~anti_spam_enabled
    /\ ~reward_system_enabled
    /\ scheduled_mode
    /\ bot_paused

\* C32: the lock is held only by the video handler waiting for send_message,
\* whose return is always possible and releases it; with gateway calls that
\* return, the lock is free again after every time it is held, and every
\* timer thread that waits for it gets it.
C32_HolderCanFinish ==
    pending_users_lock => (loop.pc = "video_send" /\ ENABLED VideoSendReturns)
C32_NoLockDeadlock ==
    /\ []C32_HolderCanFinish
    /\ pending_users_lock ~> ~pending_users_lock
    /\ \A t \in TimerIds : (timers[t].st = "fired") ~> (timers[t].st # "fired")
\* A timer thread is waiting for the lock while the video handler holds it
\* across its send_message.
C32_Witness ==
    /\ pending_users_lock
    /\ loop.pc = "video_send"
    /\ \E t \in TimerIds : timers[t].st = "fired"

\* C33: the timer of every pending entry is that key's timer, started and not
\* cancelled (it is waiting, or its callback is on its way to the lock), and
\* a waiting timer is cancelled only in the step that deletes or replaces the
\* entry that holds it.
C33_EntryTimerLive ==
    \A k \in Keys :
        HasEntry(k) =>
            /\ timers[pending_users[k].timer].key = k
            /\ timers[pending_users[k].timer].st \in {"waiting", "fired"}
C33_CancelStep ==
    \A t \in TimerIds :
        (timers[t].st = "waiting" /\ timers'[t].st = "dead") =>
            /\ pending_users[timers[t].key].timer = t
            /\ pending_users'[timers[t].key].timer # t
C33_EntryOwnsLiveTimer == []C33_EntryTimerLive /\ [][C33_CancelStep]_vars
\* A rejoin has replaced an entry: its timer is cancelled and the new entry
\* holds a waiting timer, while the other key's entry waits for a callback
\* that is already on its way.
C33_Witness ==
    /\ \E t \in TimerIds : timers[t].st = "dead"
    /\ \E k \in Keys :
        HasEntry(k) /\ timers[pending_users[k].timer].st = "waiting"
    /\ \E k \in Keys :
        HasEntry(k) /\ timers[pending_users[k].timer].st = "fired"

\* C34: every key of the ledger is verified, every total is a positive
\* multiple of 25, and the totals together are at most 100 for each
\* verification counted.
C34_LedgerBounded ==
    /\ \A i \in 1..Len(user_points) :
        /\ user_points[i].key \in verified_users
        /\ user_points[i].points > 0
        /\ user_points[i].points % RegularPoints = 0
    /\ SumPoints(user_points) <= FastPoints * stats.users_verified
\* Two keys are in the ledger, one with more than a single award, and the
\* totals are below the bound.
C34_Witness ==
    /\ Len(user_points) = 2
    /\ \E k \in Keys : Total(k) > FastPoints
    /\ SumPoints(user_points) < FastPoints * stats.users_verified

\* Lines 521 and 610: the success rate of /stats and /report, in whole
\* percent.
SuccessRate ==
    (stats.users_verified * 100)
        \div (IF stats.total_joins > 1 THEN stats.total_joins ELSE 1)

\* C35: the verified and the kicked together never outnumber the joins, so
\* the success rate shown is never above 100 percent, also when entries come
\* from a first text message.
C35_OutcomesWithinJoins ==
    /\ stats.users_verified + stats.users_kicked <= stats.total_joins
    /\ SuccessRate <= 100

\* C36: with anti-spam on and the bot not paused, every message that is not
\* a command and whose sender is not verified is handed to
\* handle_spam_detection, a text or video message included, and one whose
\* text holds a link marker is a link violation there.
C36_EveryMessageEvaluated ==
    (anti_spam_enabled /\ ~bot_paused) =>
        \A k \in Keys \ verified_users, msg \in Messages :
            /\ Dispatch(msg) = "handle_spam_detection"
            /\ HasLink(msg) => SpamOutcome(k, msg) = "links_blocked"
====
